---- MODULE Spec2Model ----
(***************************************************************************)
(* A state-machine model of tfmodel.ipynb: the class FacialDetectionModel  *)
(* (__init__, prepare_dataset, build_model, train, plot_training_history,  *)
(* run_tensorboard), the notebook's driver cell, and the behaviour of the  *)
(* Keras 2.x callbacks that train configures (the recorded cell output,    *)
(* with its "lr:" log key and its summary table, is that of Keras 2.x).    *)
(*                                                                         *)
(* Units.  A loss is an integer count of 1e-4 (so ReduceLROnPlateau's      *)
(* default min_delta of 1e-4 is 1).  A learning rate is the float32 value  *)
(* the optimizer's variable holds, as an integer count of 2^-40: 1e-3 is   *)
(* stored as 8589935 * 2^-33 (just above 1e-3), 1e-5 as 10995116 * 2^-40   *)
(* (just below 1e-5), and halving a float32 is exact.                      *)
(* Weights are named by the serial number of the epoch that produced them  *)
(* (0: the freshly built model).                                           *)
(***************************************************************************)
EXTENDS Integers, Sequences, FiniteSets, TLC

\* ------------------------------------------------------------------ bounds
MaxRows == 2
MaxLabel == 2
MaxClasses == 2
MaxDim == 2
MaxEpochs == 2
MaxExtra == 2
MaxLoss == 2
MaxAcc == 2
MaxCalls == 3
MaxProcs == 1
MaxPlateaus == 3

\* ------------------------------------------------------- program constants
Patience == 10
RlrPatience == 5
LrDefault == 1099511680
MinLr == 10995116
TensorBoardPort == 6006
DefaultNumClasses == 10

MinDelta == 1

None == "None"
\* np.Inf and -np.Inf: beyond every loss and every accuracy of the model.
Inf == MaxLoss + 1
NegInf == 0 - 1

\* Python's None and an object reference: the empty and the one-element tuple.
NoneRef == <<>>
Ref(x) == <<x>>
IsNone(r) == r = <<>>
Deref(r) == r[1]

\* ------------------------------------------------------------- the dataset
Labels == -1..MaxLabel
EmbValues == {0, 1}
Dims == 1..MaxDim

\* A split holds its columns; every column of a split has the same number of rows.
Splits(rows, embs) ==
  UNION {[embedding : [1..n -> embs], label : [1..n -> Labels]] : n \in rows}

DatasetDicts(trainRows, testRows, trainEmbs, testEmbs) ==
  UNION {[train : Splits(trainRows, trainEmbs[d]), test : Splits(testRows, testEmbs[d])]
         : d \in Dims}

\* The constant vectors of each dimension: enough to tell one row from another.
FlatEmbs == [d \in Dims |-> {[i \in 1..d |-> v] : v \in EmbValues}]
ZeroEmbs == [d \in Dims |-> {[i \in 1..d |-> 0]}]
OneEmbs == [d \in Dims |-> {[i \in 1..d |-> 1]}]

\* A dataset with a split or a column missing.
WithoutKey(f, k) == [x \in DOMAIN f \ {k} |-> f[x]]
Broken(ds) ==
  {WithoutKey(ds, "train"), WithoutKey(ds, "test"),
   [ds EXCEPT !.train = WithoutKey(ds.train, "embedding")],
   [ds EXCEPT !.train = WithoutKey(ds.train, "label")],
   [ds EXCEPT !.test = WithoutKey(ds.test, "embedding")],
   [ds EXCEPT !.test = WithoutKey(ds.test, "label")]}

\* ------------------------------------------------------------ outcomes
Returned(op, v) == [op |-> op, kind |-> "returned", value |-> v]
Raised(op, e) == [op |-> op, kind |-> "raised", value |-> e]
NoResult == [op |-> None, kind |-> None, value |-> None]

\* ----------------------------------------------------- prepare_dataset
\* numpy's index of a label into a row of length n: 1-based here, 0 when the
\* label is out of bounds (IndexError); a negative label counts from the end.
NumpyIndex(l, n) ==
  IF 0 <= l /\ l < n THEN l + 1
  ELSE IF l < 0 /\ l >= -n THEN l + n + 1
  ELSE 0

\* A variant of to_categorical that sets the 1 one place to the right.
to_categorical_shifted(y, n) ==
  [i \in 1..Len(y) |-> [k \in 1..n |-> IF k = NumpyIndex(y[i], n) + 1 THEN 1 ELSE 0]]

\* tf.keras.utils.to_categorical(y, num_classes=n): zeros((len(y), n)) with
\* categorical[arange(len(y)), y] = 1.
to_categorical(y, n) ==
  [i \in 1..Len(y) |-> [k \in 1..n |-> IF k = NumpyIndex(y[i], n) THEN 1 ELSE 0]]

InBounds(y, n) == \A i \in 1..Len(y) : NumpyIndex(y[i], n) # 0

\* np.array(column): a fresh array holding the column's values.
np_array(col) == [i \in 1..Len(col) |-> col[i]]

\* The first failure of prepare_dataset's body, in evaluation order, or None.
PrepareFault(ds, n) ==
  IF "train" \notin DOMAIN ds THEN "KeyError"
  ELSE IF "embedding" \notin DOMAIN ds["train"] THEN "KeyError"
  ELSE IF "label" \notin DOMAIN ds["train"] THEN "KeyError"
  ELSE IF "test" \notin DOMAIN ds THEN "KeyError"
  ELSE IF "embedding" \notin DOMAIN ds["test"] THEN "KeyError"
  ELSE IF "label" \notin DOMAIN ds["test"] THEN "KeyError"
  ELSE IF ~InBounds(ds["train"]["label"], n) THEN "IndexError"
  ELSE IF ~InBounds(ds["test"]["label"], n) THEN "IndexError"
  ELSE None

PreparedArrays(ds, n) ==
  [X_train |-> np_array(ds["train"]["embedding"]),
   y_train |-> to_categorical(np_array(ds["train"]["label"]), n),
   X_test |-> np_array(ds["test"]["embedding"]),
   y_test |-> to_categorical(np_array(ds["test"]["label"]), n)]

\* ------------------------------------------------------------ the files
LogDir == <<"logs">>
Cwd == <<>>

IsPrefix(a, b) == Len(a) <= Len(b) /\ \A i \in 1..Len(a) : a[i] = b[i]
Inside(path, dir) == IsPrefix(dir, path.dir)

\* A variant of CheckpointPath that leaves out the log directory.
CheckpointInCwd(log_dir) == [dir |-> Cwd, name |-> "best_model.keras"]

\* os.path.join(self.log_dir, 'best_model.keras')
CheckpointPath(log_dir) == [dir |-> log_dir, name |-> "best_model.keras"]
\* TensorBoard(log_dir=self.log_dir) writes its event files under log_dir/train and
\* log_dir/validation.
TrainEventsPath(log_dir) == [dir |-> log_dir \o <<"train">>, name |-> "events.out.tfevents"]
ValEventsPath(log_dir) == [dir |-> log_dir \o <<"validation">>, name |-> "events.out.tfevents"]
\* plt.savefig('training_history.png'): relative to the working directory.
PlotPath == [dir |-> Cwd, name |-> "training_history.png"]

\* A file system is a set of [path, content]; writing a path replaces its content.
\* A content is a tuple of integers: a checkpoint holds the weights saved, the plot
\* the val_loss curve drawn, an event file nothing the model reads.
Write(fs, path, content) ==
  {f \in fs : f.path # path} \cup {[path |-> path, content |-> content]}
Paths(fs) == {f.path : f \in fs}

\* ------------------------------------------------------------ build_model
\* A variant of Layers whose last layer has the default class count.
LayersDefaultWidth(num_classes) == <<264, 128, 64, DefaultNumClasses>>

\* The widths of the Dense layers of the Sequential model, in order.
Layers(num_classes) == <<264, 128, 64, num_classes>>

\* models.Sequential([...]) compiled with Adam(learning_rate), loss and metrics.
\* trained counts the epochs ever run on this model (the optimizer's progress).
NewModel(input_shape, num_classes, learning_rate) ==
  [input |-> input_shape, layers |-> Layers(num_classes), compiled |-> TRUE,
   loss |-> "categorical_crossentropy", lr |-> learning_rate,
   weights |-> 0, trained |-> 0]

OutputWidth(m) == m.layers[Len(m.layers)]

BuildSteps == <<"assemble", "compile", "summary">>

\* ---------------------------------------------------------- the callbacks
\* A variant of CallbacksList without the checkpoint.
CallbacksShort == <<"EarlyStopping", "ReduceLROnPlateau", "TensorBoard">>
CallbacksList == <<"EarlyStopping", "ReduceLROnPlateau", "TensorBoard", "ModelCheckpoint">>

\* on_train_begin: EarlyStopping and ReduceLROnPlateau start afresh on every fit.
EsBegin == [wait |-> 0, best |-> Inf, best_weights |-> NoneRef, best_epoch |-> 0,
            stopped_epoch |-> 0]
RlrBegin == [wait |-> 0, best |-> Inf]
McBegin == NegInf

\* The state the callbacks of one epoch act on: the model, each callback's own
\* fields, the files, model.stop_training, and the failure raised (None: none).
\* io names the callback whose write fails in this epoch ("ok": none does).

\* A variant of EsOnEpochEnd that stops without restoring the best weights.
EsNoRestore(st, epoch, logs, io, log_dir) ==
  LET es0 == IF IsNone(st.es.best_weights)
             THEN [st.es EXCEPT !.best_weights = Ref(st.model.weights), !.best_epoch = epoch]
             ELSE st.es
      es1 == [es0 EXCEPT !.wait = @ + 1]
  IN IF logs.val_loss < es1.best
     THEN [st EXCEPT !.es = [es1 EXCEPT !.best = logs.val_loss, !.best_epoch = epoch,
                                        !.best_weights = Ref(st.model.weights), !.wait = 0]]
     ELSE IF es1.wait >= Patience /\ epoch > 0
     THEN [st EXCEPT !.es = [es1 EXCEPT !.stopped_epoch = epoch], !.stop = TRUE]
     ELSE [st EXCEPT !.es = es1]

\* A variant of EsOnEpochEnd that stops one epoch early.
EsImpatient(st, epoch, logs, io, log_dir) ==
  LET es0 == IF IsNone(st.es.best_weights)
             THEN [st.es EXCEPT !.best_weights = Ref(st.model.weights), !.best_epoch = epoch]
             ELSE st.es
      es1 == [es0 EXCEPT !.wait = @ + 1]
  IN IF logs.val_loss < es1.best
     THEN [st EXCEPT !.es = [es1 EXCEPT !.best = logs.val_loss, !.best_epoch = epoch,
                                        !.best_weights = Ref(st.model.weights), !.wait = 0]]
     ELSE IF es1.wait >= Patience - 1 /\ epoch > 0
     THEN [st EXCEPT !.es = [es1 EXCEPT !.stopped_epoch = epoch], !.stop = TRUE,
                     !.model = [@ EXCEPT !.weights = Deref(es1.best_weights)]]
     ELSE [st EXCEPT !.es = es1]

\* EarlyStopping(monitor='val_loss', patience=10, restore_best_weights=True),
\* Keras 2.x on_epoch_end; epoch is 0-based.
EsOnEpochEnd(st, epoch, logs, io, log_dir) ==
  LET es0 == IF IsNone(st.es.best_weights)
             THEN [st.es EXCEPT !.best_weights = Ref(st.model.weights), !.best_epoch = epoch]
             ELSE st.es
      es1 == [es0 EXCEPT !.wait = @ + 1]
  IN IF logs.val_loss < es1.best
     THEN [st EXCEPT !.es = [es1 EXCEPT !.best = logs.val_loss, !.best_epoch = epoch,
                                        !.best_weights = Ref(st.model.weights), !.wait = 0]]
     ELSE IF es1.wait >= Patience /\ epoch > 0
     THEN [st EXCEPT !.es = [es1 EXCEPT !.stopped_epoch = epoch], !.stop = TRUE,
                     !.model = [@ EXCEPT !.weights = Deref(es1.best_weights)]]
     ELSE [st EXCEPT !.es = es1]

Max(a, b) == IF a >= b THEN a ELSE b

\* ReduceLROnPlateau's monitor_op, np.less(a, b - min_delta); b is np.Inf at first.
MonitorOp(a, b) == b = Inf \/ a < b - MinDelta

\* A variant of RlrOnEpochEnd that halves without min_lr.
RlrNoFloor(st, epoch, logs, io, log_dir) ==
  IF MonitorOp(logs.val_loss, st.rlr.best)
  THEN [st EXCEPT !.rlr = [best |-> logs.val_loss, wait |-> 0]]
  ELSE LET w == st.rlr.wait + 1
       IN IF w >= RlrPatience /\ st.model.lr > MinLr
          THEN [st EXCEPT !.rlr.wait = 0, !.model = [@ EXCEPT !.lr = st.model.lr \div 2]]
          ELSE [st EXCEPT !.rlr.wait = w]

\* ReduceLROnPlateau(monitor='val_loss', factor=0.5, patience=5, min_lr=1e-5), with
\* the defaults min_delta=1e-4 and cooldown=0: the rate is read, halved, raised to
\* min_lr and stored back as float32 when it is above float32(min_lr).
RlrOnEpochEnd(st, epoch, logs, io, log_dir) ==
  IF MonitorOp(logs.val_loss, st.rlr.best)
  THEN [st EXCEPT !.rlr = [best |-> logs.val_loss, wait |-> 0]]
  ELSE LET w == st.rlr.wait + 1
       IN IF w >= RlrPatience /\ st.model.lr > MinLr
          THEN [st EXCEPT !.rlr.wait = 0,
                          !.model = [@ EXCEPT !.lr = Max(st.model.lr \div 2, MinLr)]]
          ELSE [st EXCEPT !.rlr.wait = w]

\* TensorBoard(log_dir=self.log_dir, histogram_freq=1, profile_batch=0): the epoch's
\* scalars and histograms go to the train and the validation event files.
TbOnEpochEnd(st, epoch, logs, io, log_dir) ==
  IF io = "TensorBoard" THEN [st EXCEPT !.fault = "OSError"]
  ELSE [st EXCEPT !.files = Write(Write(@, TrainEventsPath(log_dir), <<>>),
                                  ValEventsPath(log_dir), <<>>)]

\* ModelCheckpoint(filepath, monitor='val_accuracy', save_best_only=True): saves
\* the model as it is when the callback runs.
McOnEpochEnd(st, epoch, logs, io, log_dir) ==
  IF logs.val_accuracy > st.mc_best
  THEN IF io = "ModelCheckpoint" THEN [st EXCEPT !.mc_best = logs.val_accuracy, !.fault = "OSError"]
       ELSE [st EXCEPT !.mc_best = logs.val_accuracy,
                       !.files = Write(@, CheckpointPath(log_dir), <<st.model.weights>>)]
  ELSE st

OnEpochEnd(name, st, epoch, logs, io, log_dir) ==
  CASE name = "EarlyStopping" -> EsOnEpochEnd(st, epoch, logs, io, log_dir)
    [] name = "ReduceLROnPlateau" -> RlrOnEpochEnd(st, epoch, logs, io, log_dir)
    [] name = "TensorBoard" -> TbOnEpochEnd(st, epoch, logs, io, log_dir)
    [] name = "ModelCheckpoint" -> McOnEpochEnd(st, epoch, logs, io, log_dir)

\* The callbacks run in list order; a failure ends the run of the list.
RECURSIVE RunCallbacks(_, _, _, _, _, _)
RunCallbacks(cbs, st, epoch, logs, io, log_dir) ==
  IF cbs = <<>> \/ st.fault # None THEN st
  ELSE RunCallbacks(Tail(cbs), OnEpochEnd(Head(cbs), st, epoch, logs, io, log_dir),
                    epoch, logs, io, log_dir)

\* ------------------------------------------------------------- the state
VARIABLES
  dataset,      \* the notebook's global: the DatasetDict loaded from the hub
  self,         \* the instance: model, input_shape, num_classes, log_dir
  history,      \* the notebook's global: what train last returned (or None)
  dirs,         \* the directories that exist
  files,        \* the files that exist, with their contents
  procs,        \* the child processes started, with their states
  stdout,       \* the kinds of output printed to the cell
  pc,           \* where the kernel is: "idle" or a step of train
  frame,        \* the locals of the running (or last) train call
  result,       \* how the last operation ended
  fault,        \* the failure the last step's library call raised (None: none)
  steps,        \* the steps taken since the last train call began
  trainBuilds,  \* how many times train has built the model of this instance
  calls         \* the operations called so far

vars == <<dataset, self, history, dirs, files, procs, stdout, pc, frame, result,
          fault, steps, trainBuilds, calls>>

NoFrame ==
  [epochs |-> 0, model0 |-> NoneRef, arrays |-> NoneRef, callbacks |-> <<>>,
   fit |-> NoneRef, es |-> EsBegin, rlr |-> RlrBegin, mc_best |-> McBegin,
   epoch |-> 0, val_loss |-> <<>>, stop |-> FALSE, base |-> 0, built |-> FALSE]

\* __init__(input_shape, num_classes, log_dir): the fields it sets.
Fields(input_shape, num_classes, log_dir) ==
  [model |-> NoneRef, input_shape |-> input_shape, num_classes |-> num_classes,
   log_dir |-> log_dir]

\* The driver cell's arguments: input_shape=(len(dataset['train'][0]['embedding']),)
\* and num_classes=len(set(dataset['train']['label'])).
DriverShape(ds) == Len(ds["train"]["embedding"][1])
DriverClasses(ds) == Cardinality({ds["train"]["label"][i] : i \in 1..Len(ds["train"]["label"])})
DriverRuns(ds) ==
  /\ "train" \in DOMAIN ds
  /\ {"embedding", "label"} \subseteq DOMAIN ds["train"]
  /\ Len(ds["train"]["embedding"]) >= 1

\* The datasets of the class-level specification: a train split of zero vectors
\* and a one-row test split of one vectors, every labelling, and the same with a
\* key missing.
WholeDatasets == DatasetDicts({1}, {1}, ZeroEmbs, OneEmbs)
SpecDatasets == WholeDatasets \cup UNION {Broken(ds) : ds \in WholeDatasets}

\* The datasets prepare_dataset is applied to on its own: one split of up to
\* MaxRows rows beside one of at most one row, every labelling, and the datasets
\* with a key missing.
PrepDatasets ==
  DatasetDicts(0..MaxRows, 0..1, FlatEmbs, OneEmbs)
    \cup DatasetDicts(0..1, 0..MaxRows, FlatEmbs, OneEmbs)
    \cup UNION {Broken(ds) : ds \in WholeDatasets}

\* The datasets of the shape checks: train splits of up to MaxRows rows.
ShapeDatasets ==
  {ds \in DatasetDicts(1..MaxRows, {1}, ZeroEmbs, OneEmbs) : ds.test.label[1] = 0}

\* The datasets of the training runs: every label is class 0.
FitDatasets ==
  {ds \in WholeDatasets :
     ds.train.label[1] = 0 /\ ds.test.label[1] = 0 /\ Len(ds.train.embedding[1]) = 1}

\* The instance as constructed: by the driver cell where its construction runs.
Constructed(driver) ==
  IF driver /\ DriverRuns(dataset)
  THEN self = Fields(DriverShape(dataset), DriverClasses(dataset), LogDir)
  ELSE \E d \in Dims, n \in 1..MaxClasses : self = Fields(d, n, LogDir)

InitWith(datasets, driver) ==
  /\ dataset \in datasets
  /\ Constructed(driver)
  /\ history = NoneRef
  /\ dirs = {LogDir}
  /\ files = {}
  /\ procs = {}
  /\ stdout = {}
  /\ pc = "idle"
  /\ frame = NoFrame
  /\ result = NoResult
  /\ fault = None
  /\ steps = <<>>
  /\ trainBuilds = 0
  /\ calls = 0

Init == InitWith(SpecDatasets, TRUE)

\* ------------------------------------------------------ how an operation ends
\* A variant of OnFault that catches the failure and returns None.
OnFaultSwallow(op, e) ==
  /\ result' = Returned(op, None)
  /\ pc' = "idle"
  /\ fault' = e

\* No operation of the class has a try/except: a failure raised inside it ends it.
OnFault(op, e) ==
  /\ result' = Raised(op, e)
  /\ pc' = "idle"
  /\ fault' = e

Return(op, v) ==
  /\ result' = Returned(op, v)
  /\ pc' = "idle"
  /\ fault' = None

Begin ==
  /\ pc = "idle"
  /\ calls < MaxCalls
  /\ calls' = calls + 1

\* ------------------------------------------------------------- __init__
init_call ==
  /\ Begin
  /\ \E d \in Dims, n \in 1..MaxClasses, ok \in BOOLEAN :
       /\ self' = Fields(d, n, LogDir)
       /\ trainBuilds' = 0
       /\ IF ok
          THEN dirs' = dirs \cup {LogDir} /\ Return("__init__", None)
          ELSE UNCHANGED dirs /\ OnFault("__init__", "OSError")
  /\ UNCHANGED <<dataset, history, files, procs, stdout, frame, steps>>

\* ------------------------------------------------------ prepare_dataset
prepare_dataset_call ==
  /\ Begin
  /\ LET e == PrepareFault(dataset, self.num_classes)
     IN IF e # None
        THEN OnFault("prepare_dataset", e)
        ELSE Return("prepare_dataset", PreparedArrays(dataset, self.num_classes))
  /\ UNCHANGED <<dataset, self, history, dirs, files, procs, stdout, frame, steps,
                 trainBuilds>>

\* ---------------------------------------------------------- build_model
\* build_model(learning_rate): the default 1e-3 and 5e-4, as float32 stores them.
LearningRates == {LrDefault, LrDefault \div 2}

build_model_call ==
  /\ Begin
  /\ \E lr \in LearningRates :
       self' = [self EXCEPT !.model = Ref(NewModel(self.input_shape, self.num_classes, lr))]
  /\ stdout' = stdout \cup {"summary"}
  /\ Return("build_model", None)
  /\ UNCHANGED <<dataset, history, dirs, files, procs, frame, steps, trainBuilds>>

\* ----------------------------------------------------------------- train
ShortEpochs == 1..MaxEpochs
LongEpochs == {1} \cup ((Patience + 1)..(Patience + MaxExtra))
\* The epochs one instance is let run in all: the longest call, or a one-epoch call
\* and a call long enough for the patience to run out.
EpochBudget == Patience + MaxExtra
Trained == IF IsNone(self.model) THEN 0 ELSE Deref(self.model).trained

Losses == 1..MaxLoss
Accuracies == 1..MaxAcc
IoOutcomes == {"ok", "TensorBoard", "ModelCheckpoint"}

\* train(dataset, epochs) is called, on an instance with epochs left in budget B.
train_within(E, B) ==
  /\ Begin
  /\ \E epochs \in E :
       /\ Trained + epochs <= B
       /\ frame' = [NoFrame EXCEPT !.epochs = epochs, !.model0 = self.model]
  /\ pc' = "prepare_dataset"
  /\ steps' = <<>>
  /\ fault' = None
  /\ UNCHANGED <<dataset, self, history, dirs, files, procs, stdout, result, trainBuilds>>

train_call(E) == train_within(E, EpochBudget)

\* X_train, y_train, X_test, y_test = self.prepare_dataset(dataset)
train_prepare ==
  /\ pc = "prepare_dataset"
  /\ LET e == PrepareFault(dataset, self.num_classes)
     IN IF e # None
        THEN /\ OnFault("train", e)
             /\ frame' = NoFrame
             /\ UNCHANGED steps
        ELSE /\ frame' = [frame EXCEPT !.arrays = Ref(PreparedArrays(dataset, self.num_classes))]
             /\ steps' = Append(steps, "prepare_dataset")
             /\ pc' = "build_model"
             /\ fault' = None
             /\ UNCHANGED result
  /\ UNCHANGED <<dataset, self, history, dirs, files, procs, stdout, trainBuilds, calls>>

\* A variant of NeedsBuild that rebuilds on every call.
AlwaysBuild(model) == TRUE

\* if self.model is None: self.build_model()
NeedsBuild(model) == IsNone(model)

train_build ==
  /\ pc = "build_model"
  /\ IF NeedsBuild(self.model)
     THEN /\ self' = [self EXCEPT !.model =
                        Ref(NewModel(self.input_shape, self.num_classes, LrDefault))]
          /\ stdout' = stdout \cup {"summary"}
          /\ steps' = steps \o SubSeq(BuildSteps, 1, 2)
          /\ trainBuilds' = trainBuilds + 1
          /\ frame' = [frame EXCEPT !.built = TRUE]
     ELSE UNCHANGED <<self, stdout, steps, trainBuilds, frame>>
  /\ pc' = "callbacks"
  /\ fault' = None
  /\ UNCHANGED <<dataset, history, dirs, files, procs, result, calls>>

\* callbacks_list = [EarlyStopping(...), ReduceLROnPlateau(...), TensorBoard(...),
\*                   ModelCheckpoint(...)]
train_callbacks ==
  /\ pc = "callbacks"
  /\ frame' = [frame EXCEPT !.callbacks = CallbacksList]
  /\ pc' = "fit"
  /\ fault' = None
  /\ UNCHANGED <<dataset, self, history, dirs, files, procs, stdout, result, steps,
                 trainBuilds, calls>>

\* A variant of FitArgs with the splits exchanged.
FitArgsSwapped(fr) ==
  [x |-> Deref(fr.arrays).X_test, y |-> Deref(fr.arrays).y_test,
   val_x |-> Deref(fr.arrays).X_train, val_y |-> Deref(fr.arrays).y_train,
   epochs |-> fr.epochs, callbacks |-> fr.callbacks]

\* The arguments of self.model.fit(X_train, y_train, validation_data=(X_test, y_test),
\* epochs=epochs, batch_size=batch_size, callbacks=callbacks_list, verbose=1).
FitArgs(fr) ==
  [x |-> Deref(fr.arrays).X_train, y |-> Deref(fr.arrays).y_train,
   val_x |-> Deref(fr.arrays).X_test, val_y |-> Deref(fr.arrays).y_test,
   epochs |-> fr.epochs, callbacks |-> fr.callbacks]

\* fit begins: on_train_begin of every callback; TensorBoard opens its train
\* writer and writes the model's graph.
fit_begin ==
  /\ pc = "fit"
  /\ \E ok \in BOOLEAN :
       IF ok
       THEN /\ files' = Write(files, TrainEventsPath(self.log_dir), <<>>)
            /\ dirs' = dirs \cup {self.log_dir \o <<"train">>}
            /\ frame' = [frame EXCEPT !.fit = Ref(FitArgs(frame)), !.es = EsBegin,
                                      !.rlr = RlrBegin, !.mc_best = McBegin,
                                      !.base = Deref(self.model).trained]
            /\ steps' = Append(steps, "fit")
            /\ pc' = IF frame.epochs > 0 THEN "epoch" ELSE "fit_end"
            /\ fault' = None
            /\ UNCHANGED result
       ELSE /\ OnFault("train", "OSError")
            /\ frame' = NoFrame
            /\ UNCHANGED <<files, dirs, steps>>
  /\ UNCHANGED <<dataset, self, history, procs, stdout, trainBuilds, calls>>

\* The first training step checks the arrays against the model (the splits of one
\* dataset share their embedding length).
ShapeFault(m, a) ==
  IF Len(a.x) = 0 \/ Len(a.val_x) = 0 THEN "ValueError"
  ELSE IF Len(a.x[1]) # m.input \/ Len(a.y[1]) # OutputWidth(m) THEN "ValueError"
  ELSE None

\* One epoch: the training steps, the validation, then on_epoch_end of the
\* callbacks in list order, then the History callback.
fit_epoch(L, A) ==
  /\ pc = "epoch"
  /\ LET m == Deref(self.model)
         e == ShapeFault(m, Deref(frame.fit))
     IN IF frame.epoch = 0 /\ e # None
        THEN /\ OnFault("train", e)
             /\ frame' = NoFrame
             /\ UNCHANGED <<self, files, dirs, stdout>>
        ELSE \E vl \in L, va \in A, io \in IoOutcomes :
          LET m1 == [m EXCEPT !.trained = @ + 1, !.weights = m.trained + 1]
              st0 == [model |-> m1, es |-> frame.es, rlr |-> frame.rlr,
                      mc_best |-> frame.mc_best, files |-> files, stop |-> FALSE,
                      fault |-> None]
              st == RunCallbacks(Deref(frame.fit).callbacks, st0, frame.epoch,
                                 [val_loss |-> vl, val_accuracy |-> va], io, self.log_dir)
          IN /\ self' = [self EXCEPT !.model = Ref(st.model)]
             /\ files' = st.files
             /\ dirs' = dirs \cup {f.path.dir : f \in st.files \ files}
             /\ stdout' = stdout \cup {"progress"}
             /\ IF st.fault # None
                THEN /\ OnFault("train", st.fault)
                     /\ frame' = NoFrame
                ELSE /\ frame' = [frame EXCEPT !.es = st.es, !.rlr = st.rlr,
                                               !.mc_best = st.mc_best,
                                               !.epoch = @ + 1,
                                               !.val_loss = Append(@, vl),
                                               !.stop = st.stop]
                     /\ pc' = IF st.stop \/ frame.epoch + 1 >= frame.epochs
                              THEN "fit_end" ELSE "epoch"
                     /\ fault' = None
                     /\ UNCHANGED result
  /\ UNCHANGED <<dataset, history, procs, steps, trainBuilds, calls>>

\* fit returns its History; train returns it; the driver cell binds it to history.
HistoryOf(fr) == [val_loss |-> fr.val_loss, epochs |-> fr.epochs]

fit_end ==
  /\ pc = "fit_end"
  /\ history' = Ref(HistoryOf(frame))
  /\ Return("train", HistoryOf(frame))
  /\ steps' = Append(steps, "return")
  /\ UNCHANGED <<dataset, self, dirs, files, procs, stdout, frame, trainBuilds, calls>>

\* ------------------------------------------------- plot_training_history
plot_training_history_call ==
  /\ Begin
  /\ ~IsNone(history)
  /\ \E ok \in BOOLEAN :
       IF ok
       THEN /\ files' = Write(files, PlotPath, Deref(history).val_loss)
            /\ Return("plot_training_history", None)
       ELSE /\ OnFault("plot_training_history", "OSError")
            /\ UNCHANGED files
  /\ UNCHANGED <<dataset, self, history, dirs, procs, stdout, frame, steps, trainBuilds>>

\* ------------------------------------------------------- run_tensorboard
\* A variant of Popen that waits for the child to end.
PopenAndWait(pid, argv) == [pid |-> pid, argv |-> argv, state |-> "exited"]

\* subprocess.Popen(['tensorboard', '--logdir', self.log_dir]) starts the child and
\* returns at once: nothing waits for it.
Popen(pid, argv) == [pid |-> pid, argv |-> argv, state |-> "running"]

TensorBoardArgv(log_dir) == <<"tensorboard", "--logdir">> \o log_dir
Spawned == Cardinality(procs)
Running == {p \in procs : p.state = "running"}

run_tensorboard_call ==
  /\ Begin
  /\ Spawned < MaxProcs
  /\ \E ok \in BOOLEAN :
       IF ok
       THEN /\ procs' = procs \cup {Popen(Spawned + 1, TensorBoardArgv(self.log_dir))}
            /\ stdout' = stdout \cup {"tensorboard_url"}
            /\ Return("run_tensorboard", Spawned + 1)
       ELSE /\ OnFault("run_tensorboard", "FileNotFoundError")
            /\ UNCHANGED <<procs, stdout>>
  /\ UNCHANGED <<dataset, self, history, dirs, files, frame, steps, trainBuilds>>

\* The TensorBoard child, on its own schedule, serves http://localhost:6006 until
\* it ends (it is killed, or it finds the port taken).
Ports == {TensorBoardPort : p \in Running}

tensorboard_exit ==
  /\ \E p \in Running : procs' = (procs \ {p}) \cup {[p EXCEPT !.state = "exited"]}
  /\ UNCHANGED <<dataset, self, history, dirs, files, stdout, pc, frame, result,
                 fault, steps, trainBuilds, calls>>

\* ------------------------------------------------------ specifications
Next ==
  \/ init_call
  \/ prepare_dataset_call
  \/ build_model_call
  \/ train_call(ShortEpochs)
  \/ train_prepare
  \/ train_build
  \/ train_callbacks
  \/ fit_begin
  \/ fit_epoch(Losses, Accuracies)
  \/ fit_end
  \/ plot_training_history_call
  \/ run_tensorboard_call
  \/ tensorboard_exit

Spec == Init /\ [][Next]_vars

\* prepare_dataset on its own, over every dataset and class count.
InitPrep == InitWith(PrepDatasets, FALSE)
NextPrep == prepare_dataset_call
SpecPrep == InitPrep /\ [][NextPrep]_vars

\* Construction, build_model and train over train splits of several rows.
InitShape == InitWith(ShapeDatasets, TRUE)
NextShape ==
  \/ init_call
  \/ prepare_dataset_call
  \/ build_model_call
  \/ train_call(ShortEpochs)
  \/ train_prepare
  \/ train_build
  \/ train_callbacks
  \/ fit_begin
  \/ fit_epoch(Losses, Accuracies)
  \/ fit_end
SpecShape == InitShape /\ [][NextShape]_vars

\* train calls long enough for EarlyStopping's patience to run out.
InitFit == InitWith(FitDatasets, TRUE)
NextFit ==
  \/ train_call(LongEpochs)
  \/ train_prepare
  \/ train_build
  \/ train_callbacks
  \/ fit_begin
  \/ fit_epoch(Losses, {1})
  \/ fit_end
SpecFit == InitFit /\ [][NextFit]_vars

\* train calls long enough for ReduceLROnPlateau to act MaxPlateaus + 2 times in
\* one call, after a call that EarlyStopping ended within MaxPlateaus plateaus;
\* over val_loss curves that never rise (to EarlyStopping and ReduceLROnPlateau,
\* which compare an epoch's val_loss with their best so far, a rise is an epoch
\* without improvement just as a repeated value is).
PlateauEpochs == {(MaxPlateaus + 2) * RlrPatience + 2}
PlateauBudget == (2 * MaxPlateaus + 2) * RlrPatience + 3
LastLoss ==
  IF frame.val_loss = <<>> THEN MaxLoss ELSE frame.val_loss[Len(frame.val_loss)]
FallingLosses == 0..LastLoss

InitLR == InitWith(FitDatasets, TRUE)
NextLR ==
  \/ train_within(PlateauEpochs, PlateauBudget)
  \/ train_prepare
  \/ train_build
  \/ train_callbacks
  \/ fit_begin
  \/ fit_epoch(FallingLosses, {1})
  \/ fit_end
SpecLR == InitLR /\ [][NextLR]_vars

\* ------------------------------------------------------------ the claims
TrainReturned == pc = "idle" /\ result.op = "train" /\ result.kind = "returned"

\* C1: a train call on an instance with no model takes its steps in the order
\* prepare_dataset, model assembly, compilation, one fit, return, and no other; the
\* fit gets exactly the four callbacks EarlyStopping, ReduceLROnPlateau,
\* TensorBoard, ModelCheckpoint in that order; and the plot is written only between
\* operations, from a history that a train call has returned.
TrainOrder == <<"prepare_dataset", "assemble", "compile", "fit", "return">>
StepsDone(p) ==
  CASE p = "prepare_dataset" -> 0
    [] p = "build_model" -> 1
    [] p \in {"callbacks", "fit"} -> 3
    [] p \in {"epoch", "fit_end"} -> 4
    [] OTHER -> 5

PngContent(fs) == {f.content : f \in {g \in fs : g.path.name = "training_history.png"}}

C1_StepsInOrder ==
  /\ (IsNone(frame.model0) /\ (pc # "idle" \/ TrainReturned)) =>
       steps = SubSeq(TrainOrder, 1, StepsDone(pc))
  /\ ~IsNone(frame.fit) =>
       Deref(frame.fit).callbacks =
         <<"EarlyStopping", "ReduceLROnPlateau", "TensorBoard", "ModelCheckpoint">>

C1_PlotAfterTrain ==
  /\ PngContent(files') # PngContent(files) =>
       /\ pc = "idle" /\ pc' = "idle"
       /\ ~IsNone(history)
       /\ PngContent(files') = {Deref(history).val_loss}
  /\ history' # history =>
       /\ pc = "fit_end"
       /\ result'.op = "train" /\ result'.kind = "returned"
       /\ history' = Ref(result'.value)

C1_TrainSequence == [][C1_StepsInOrder' /\ C1_PlotAfterTrain]_vars

C1_Witness ==
  /\ pc = "idle"
  /\ result.op = "plot_training_history" /\ result.kind = "returned"
  /\ IsNone(frame.model0) /\ frame.built
  /\ steps = TrainOrder
  /\ PngContent(files) = {frame.val_loss}
  /\ Len(frame.val_loss) = 2

\* C3: whenever the instance has a model, its last layer is num_classes wide, and
\* so is every one-hot vector prepare_dataset has produced for the instance; when
\* the instance has the fields the driver cell constructs it with, that width is
\* the number of distinct labels of the train split.
Widths(y) == {Len(y[i]) : i \in 1..Len(y)}
DriverConstructed ==
  /\ DriverRuns(dataset)
  /\ self.input_shape = DriverShape(dataset)
  /\ self.num_classes = DriverClasses(dataset)
DistinctTrainLabels == {dataset.train.label[i] : i \in 1..Len(dataset.train.label)}

C3_OutputWidth ==
  /\ ~IsNone(self.model) =>
       /\ OutputWidth(Deref(self.model)) = self.num_classes
       /\ DriverConstructed =>
            OutputWidth(Deref(self.model)) = Cardinality(DistinctTrainLabels)
  /\ (result.op = "prepare_dataset" /\ result.kind = "returned") =>
       Widths(result.value.y_train) \cup Widths(result.value.y_test) \subseteq {self.num_classes}
  /\ (pc # "idle" /\ ~IsNone(frame.arrays)) =>
       Widths(Deref(frame.arrays).y_train) \cup Widths(Deref(frame.arrays).y_test)
         \subseteq {self.num_classes}

C3_Witness ==
  /\ TrainReturned
  /\ frame.built
  /\ DriverConstructed
  /\ Cardinality(DistinctTrainLabels) = 2
  /\ OutputWidth(Deref(self.model)) = 2
  /\ Widths(Deref(frame.arrays).y_train) = {2}

\* C4 as claimed: nothing is produced but files inside the log directory and one
\* PNG plot file.
OutsideLogDir == {f \in files : ~Inside(f.path, self.log_dir)}

C5_NothingLeftRunning == Running = {}

\* C5 as amended: a process is started by run_tensorboard alone, which returns
\* with the child it started still running; every other operation starts none;
\* and of the instance's fields, operations other than __init__ change model only.
Started == {p \in procs' : \A q \in procs : q.pid # p.pid}

C5_OnlyTensorBoardOutlives ==
  [][/\ (Started # {} \/ (calls' # calls /\ pc' = "idle"
                                         /\ result'.op = "run_tensorboard"
                                         /\ result'.kind = "returned")) =>
          /\ pc = "idle" /\ pc' = "idle"
          /\ result'.op = "run_tensorboard" /\ result'.kind = "returned"
          /\ \E p \in Started :
               /\ p.state = "running"
               /\ procs' = procs \cup {p}
               /\ result'.value = p.pid
     /\ [self' EXCEPT !.model = NoneRef] # [self EXCEPT !.model = NoneRef] =>
          /\ pc = "idle" /\ result'.op = "__init__"
    ]_vars

C5_Witness ==
  /\ Running # {}
  /\ pc = "epoch"
  /\ frame.epoch = 1

\* C6: a failure raised by a library call inside an operation ends the operation
\* with that failure: the operation ends raised, with the failure as raised, and
\* train binds no history.
C6_FailurePropagates ==
  [][fault' # None =>
       /\ result'.kind = "raised"
       /\ result'.value = fault'
       /\ pc' = "idle"
       /\ history' = history
       /\ pc # "idle" => result'.op = "train"
    ]_vars

C6_Witness ==
  /\ pc = "idle"
  /\ result.op = "train" /\ result.kind = "raised"
  /\ fault = "IndexError"
  /\ IsNone(history)

\* C7: no step changes the dataset, and what fit is given is the train split as
\* training data and the test split as validation data, the labels of each
\* one-hot encoded in new arrays.
HotAt(y, labels, n) ==
  /\ Len(y) = Len(labels)
  /\ \A i \in 1..Len(labels) : y[i][NumpyIndex(labels[i], n)] = 1

FitUsesSplits ==
  ~IsNone(frame.fit) =>
    /\ Deref(frame.fit).x = dataset.train.embedding
    /\ Deref(frame.fit).val_x = dataset.test.embedding
    /\ HotAt(Deref(frame.fit).y, dataset.train.label, Len(Deref(frame.fit).y[1]))
    /\ HotAt(Deref(frame.fit).val_y, dataset.test.label, Len(Deref(frame.fit).y[1]))

C7_DatasetReadOnly == [][dataset' = dataset /\ FitUsesSplits']_vars

C7_Witness ==
  /\ TrainReturned
  /\ Deref(frame.fit).x # Deref(frame.fit).val_x
  /\ dataset.train.label = <<1>>
  /\ dataset.test.label = <<0>>
  /\ Deref(frame.fit).y = <<(<<0, 1>>)>>

\* C8: train builds the model exactly when the instance has none: it builds at
\* most once in the life of an instance, and a model that is there when train is
\* called (built by build_model with any learning rate, or left by an earlier
\* train) is the model fit starts from, weights and optimizer state included.
AfterBuildStep == pc \in {"callbacks", "fit", "epoch", "fit_end"} \/ TrainReturned

C8_BuildsOnlyIfNone ==
  /\ trainBuilds <= 1
  /\ AfterBuildStep => (frame.built <=> IsNone(frame.model0))
  /\ (~IsNone(frame.model0) /\ (pc \in {"callbacks", "fit"} \/ (pc = "epoch" /\ frame.epoch = 0))) =>
       self.model = frame.model0
  /\ (~IsNone(frame.model0) /\ AfterBuildStep /\ ~IsNone(frame.fit)) =>
       frame.base = Deref(frame.model0).trained

C8_Witness ==
  /\ pc = "epoch" /\ frame.epoch = 0
  /\ ~IsNone(frame.model0)
  /\ Deref(frame.model0).trained > 0
  /\ Deref(frame.model0).lr = LrDefault \div 2
  /\ self.model = frame.model0

\* C2: when prepare_dataset returns, each split keeps its rows and their order,
\* and every label L with 0 <= L < num_classes is encoded as a vector of length
\* num_classes with a single 1, at index L.
OneHotAt(v, n, l) ==
  /\ Len(v) = n
  /\ \A k \in 1..n : v[k] = IF k = l + 1 THEN 1 ELSE 0

EncodesSplit(X, y, split, n) ==
  /\ Len(X) = Len(split.embedding)
  /\ Len(y) = Len(split.label)
  /\ \A i \in 1..Len(split.label) :
       /\ X[i] = split.embedding[i]
       /\ (0 <= split.label[i] /\ split.label[i] < n) => OneHotAt(y[i], n, split.label[i])

C2_OneHot ==
  (pc = "idle" /\ result.op = "prepare_dataset" /\ result.kind = "returned") =>
    /\ EncodesSplit(result.value.X_train, result.value.y_train, dataset.train, self.num_classes)
    /\ EncodesSplit(result.value.X_test, result.value.y_test, dataset.test, self.num_classes)

C2_Witness ==
  /\ result.op = "prepare_dataset" /\ result.kind = "returned"
  /\ self.num_classes = 2
  /\ Len(dataset.train.label) = 2
  /\ dataset.train.label[1] = 1 /\ dataset.train.label[2] = 0
  /\ dataset.train.embedding[1] # dataset.train.embedding[2]
  /\ result.value.y_train = <<(<<0, 1>>), (<<1, 0>>)>>

\* The epochs of a val_loss curve at which EarlyStopping's monitor improved, read
\* off the curve alone.
SetMin(S) == CHOOSE x \in S : \A y \in S : x <= y
BestBefore(v, j) == IF j = 1 THEN Inf ELSE SetMin({v[i] : i \in 1..(j - 1)})
Improved(v, j) == v[j] < BestBefore(v, j)
Stalled(v, k) == k >= Patience /\ \A j \in (k - Patience + 1)..k : ~Improved(v, j)
ArgMinFirst(v) == CHOOSE i \in 1..Len(v) : \A j \in 1..Len(v) : v[i] < v[j] \/ (v[i] = v[j] /\ i <= j)

\* C9: a train call that returns has run at least 1 and at most `epochs` epochs,
\* and it has run fewer than `epochs` exactly when its last epoch is the first one
\* at which val_loss had not improved on its best for Patience epochs in a row.
C9_EpochsRun ==
  LET v == frame.val_loss
      n == Len(v)
  IN /\ TrainReturned =>
          /\ result.value.val_loss = v
          /\ 1 <= n /\ n <= frame.epochs
          /\ \A k \in 1..(n - 1) : ~Stalled(v, k)
          /\ n < frame.epochs => Stalled(v, n)
     /\ pc = "epoch" =>
          /\ n < frame.epochs
          /\ \A k \in 1..n : ~Stalled(v, k)

C9_Witness ==
  /\ TrainReturned
  /\ Len(frame.val_loss) = Patience + 1
  /\ Len(frame.val_loss) < frame.epochs

\* C10 as claimed: whenever train returns, the model holds the weights of the
\* epoch of that call with the lowest val_loss (the earliest on ties).
C10_BestWeightsAlways ==
  TrainReturned =>
    Deref(self.model).weights = frame.base + ArgMinFirst(frame.val_loss)

\* C10 as amended: when train returns after EarlyStopping ran out of patience, the
\* model holds the weights of the epoch of that call with the lowest val_loss (the
\* earliest on ties); when it returns without that, it holds the weights of the
\* last epoch run.
C10_BestWeightsOnEarlyStop ==
  LET v == frame.val_loss
  IN TrainReturned =>
       Deref(self.model).weights =
         frame.base + (IF Stalled(v, Len(v)) THEN ArgMinFirst(v) ELSE Len(v))

C10_Witness ==
  /\ TrainReturned
  /\ Stalled(frame.val_loss, Len(frame.val_loss))
  /\ ArgMinFirst(frame.val_loss) = 2
  /\ Deref(self.model).weights = frame.base + 2
  /\ Len(frame.val_loss) = Patience + 2

\* The learning rate of the instance's model, and the val_loss curve of the
\* running call as it stands after a step (a step that ends in a failure drops
\* the call's locals: the curve is then the one before it and the epoch's value).
LrOf(s) == Deref(s.model).lr
CurvesAfter ==
  IF frame' # NoFrame THEN {frame'.val_loss}
  ELSE {Append(frame.val_loss, vl) : vl \in 0..MaxLoss}

\* The best val_loss as ReduceLROnPlateau counts it, read off the curve alone: a
\* value replaces the best only when it is lower by more than min_delta.
RECURSIVE PlateauBest(_, _)
PlateauBest(v, j) ==
  IF j = 1 THEN Inf
  ELSE LET b == PlateauBest(v, j - 1)
       IN IF b = Inf \/ v[j - 1] < b - MinDelta THEN v[j - 1] ELSE b

\* The last RlrPatience epochs up to k brought no improvement of more than
\* min_delta (OnPlateau), no improvement at all (NoGain).
OnPlateau(v, k) ==
  /\ k >= RlrPatience
  /\ \A j \in (k - RlrPatience + 1)..k :
       LET b == PlateauBest(v, j) IN b # Inf /\ ~(v[j] < b - MinDelta)
NoGain(v, k) ==
  /\ k >= RlrPatience
  /\ \A j \in (k - RlrPatience + 1)..k : ~Improved(v, j)

\* What a step does to the learning rate, given what counts as a stall.
LrRule(Stall(_, _)) ==
  /\ ~IsNone(self'.model) =>
       (MinLr <= LrOf(self') /\ LrOf(self') <= LrDefault)
  /\ (~IsNone(self.model) /\ ~IsNone(self'.model)) =>
       /\ LrOf(self') <= LrOf(self)
       /\ LrOf(self) <= MinLr => LrOf(self') = LrOf(self)
       /\ LrOf(self') # LrOf(self) =>
            /\ pc = "epoch"
            /\ \E v \in CurvesAfter : Stall(v, Len(v))
            /\ LrOf(self') = Max(LrOf(self) \div 2, MinLr)

\* C11 as claimed: over the epochs and the train calls of one instance the
\* learning rate never increases; it changes only at the end of an epoch at which
\* val_loss has not improved for 5 epochs in a row; a change sets it to
\* max(0.5 * old, 1e-5); at or below 1e-5 it is not changed; from the default
\* 1e-3 it stays between 1e-5 and 1e-3 (both as float32 stores them).
C11_LrHalvesOnNoGain == [][LrRule(NoGain)]_vars

\* C11 as amended: the same, with "not improved" as ReduceLROnPlateau counts it:
\* the learning rate changes only at the end of an epoch at which val_loss has
\* not, for 5 epochs in a row, come more than min_delta = 1e-4 below the best
\* value the callback holds, which includes epochs at which val_loss did improve,
\* by 1e-4 or less.
C11_LrHalvesOnPlateau == [][LrRule(OnPlateau)]_vars

\* The learning rate has come down from the default to min_lr, and a further
\* plateau of 5 epochs has passed without a change.
C11_Witness ==
  /\ ~IsNone(self.model)
  /\ LrOf(self) = MinLr
  /\ frame.rlr.wait >= RlrPatience
  /\ \E j \in 2..Len(frame.val_loss) : Improved(frame.val_loss, j)

====
